---- MODULE Spec2Model ----
(***************************************************************************)
(* A model of ipinfoio_bot.py: the command table of IPInfoIOBot, the       *)
(* check_ip guard, the five command handlers, track_message, and the       *)
(* run()/shutdown() life cycle.                                            *)
(*                                                                         *)
(* Python strings are sequences of one-character strings, so that the      *)
(* regular expressions of the command table, ipaddress.ip_address,         *)
(* str.split and str.format are computed on the characters.  A literal of  *)
(* the program (GREETING, HELP, ...) is a one-element sequence holding the *)
(* literal; str.format is the concatenation of the pieces.                 *)
(***************************************************************************)
EXTENDS Integers, Sequences, FiniteSets, TLC

(***************************************************************************)
(* Bounds of the model.                                                    *)
(***************************************************************************)
\* Messages handled concurrently under SpecConc.
NumMsgs == 2
\* Stop signals (SIGTERM / SIGHUP) delivered to the process.
MaxSignals == 1

Msgs == 1..NumMsgs

(***************************************************************************)
(* Strings.                                                                *)
(***************************************************************************)
Digits == <<"0", "1", "2", "3", "4", "5", "6", "7", "8", "9">>
HexDigits == Digits \o <<"a", "b", "c", "d", "e", "f">>
HexUpper == <<"A", "B", "C", "D", "E", "F">>

Range(s) == {s[i] : i \in 1..Len(s)}

\* An upper-case hexadecimal digit in lower case, any other character as it is.
Lower(c) ==
    IF \E i \in 1..6 : HexUpper[i] = c
    THEN HexDigits[10 + (CHOOSE i \in 1..6 : HexUpper[i] = c)]
    ELSE c

\* The value of the digit character c among the digit characters ds.
DigitVal(ds, c) == (CHOOSE i \in 1..Len(ds) : ds[i] = Lower(c)) - 1

\* int(s, base) for a string of digits of that base.
RECURSIVE ToInt(_, _)
ToInt(s, ds) ==
    IF s = <<>> THEN 0
    ELSE ToInt(SubSeq(s, 1, Len(s) - 1), ds) * Len(ds) + DigitVal(ds, s[Len(s)])

\* '%x' % n
RECURSIVE ToHex(_)
ToHex(n) ==
    IF n < 16 THEN <<HexDigits[n + 1]>>
    ELSE ToHex(n \div 16) \o <<HexDigits[(n % 16) + 1]>>

\* str.split(sep): the parts of s between the occurrences of sep.
RECURSIVE Split(_, _)
Split(s, sep) ==
    IF \A i \in 1..Len(s) : s[i] # sep THEN <<s>>
    ELSE LET i == CHOOSE k \in 1..Len(s) :
                      s[k] = sep /\ \A j \in 1..(k - 1) : s[j] # sep
         IN  <<SubSeq(s, 1, i - 1)>> \o Split(SubSeq(s, i + 1, Len(s)), sep)

\* Whether s begins with p.
StartsWith(s, p) == Len(s) >= Len(p) /\ SubSeq(s, 1, Len(p)) = p

\* What the regular expression .+ takes of s: the characters before the first
\* line break (all of s when it has none).
TakeLine(s) == Split(s, "\n")[1]

(***************************************************************************)
(* ipaddress.ip_address                                                    *)
(***************************************************************************)
Invalid == [ok |-> FALSE, version |-> 0, groups |-> <<>>]
Address(v, g) == [ok |-> TRUE, version |-> v, groups |-> g]

\* An octet check that leaves out the upper limit of 255.
ValidOctetNoLimit(o) ==
    /\ o # <<>>
    /\ Range(o) \subseteq Range(Digits)
    /\ Len(o) <= 3
    /\ (o # <<"0">> => o[1] # "0")

\* IPv4Address._parse_octet: one to three decimal digits, no leading zero, at most 255.
ValidOctet(o) ==
    /\ o # <<>>
    /\ Range(o) \subseteq Range(Digits)
    /\ Len(o) <= 3
    /\ (o # <<"0">> => o[1] # "0")
    /\ ToInt(o, Digits) <= 255

\* IPv4Address(s)
ParseIPv4(s) ==
    LET octets == Split(s, ".")
    IN  IF /\ "/" \notin Range(s)
           /\ Len(octets) = 4
           /\ \A i \in 1..4 : ValidOctet(octets[i])
        THEN Address(4, [i \in 1..4 |-> ToInt(octets[i], Digits)])
        ELSE Invalid

\* IPv6Address._parse_hextet: one to four hexadecimal digits.
ValidHextet(h) ==
    /\ h # <<>>
    /\ Range(h) \subseteq Range(HexDigits) \cup Range(HexUpper)
    /\ Len(h) <= 4

\* IPv6Address._ip_int_from_string, the address kept as its eight hextets.
ParseIPv6(s) ==
    LET raw == Split(s, ":")
        last == raw[Len(raw)]
        v4 == ParseIPv4(last)
        hasV4 == "." \in Range(last)
        \* an IPv4-style suffix is converted to two hextets
        parts == IF hasV4 /\ v4.ok
                 THEN SubSeq(raw, 1, Len(raw) - 1)
                      \o <<ToHex(v4.groups[1] * 256 + v4.groups[2]),
                           ToHex(v4.groups[3] * 256 + v4.groups[4])>>
                 ELSE raw
        n == Len(parts)
        skips == {i \in 2..(n - 1) : parts[i] = <<>>}
        skip == CHOOSE i \in skips : TRUE
        hi == IF parts[1] = <<>> THEN skip - 2 ELSE skip - 1
        lo == IF parts[n] = <<>> THEN n - skip - 1 ELSE n - skip
        hiParts == SubSeq(parts, 1, hi)
        loParts == SubSeq(parts, n - lo + 1, n)
        Vals(ps) == [i \in 1..Len(ps) |-> ToInt(ps[i], HexDigits)]
    IN  IF \/ s = <<>>
           \/ "/" \in Range(s)
           \/ Len(raw) < 3
           \/ (hasV4 /\ ~v4.ok)
           \/ n > 9
           \/ Cardinality(skips) > 1
        THEN Invalid
        ELSE IF skips # {}
        THEN IF \/ (parts[1] = <<>> /\ hi # 0)
                \/ (parts[n] = <<>> /\ lo # 0)
                \/ 8 - (hi + lo) < 1
                \/ \E i \in 1..hi : ~ValidHextet(hiParts[i])
                \/ \E i \in 1..lo : ~ValidHextet(loParts[i])
             THEN Invalid
             ELSE Address(6, Vals(hiParts)
                             \o [i \in 1..(8 - (hi + lo)) |-> 0]
                             \o Vals(loParts))
        ELSE IF \/ n # 8
                \/ \E i \in 1..n : ~ValidHextet(parts[i])
             THEN Invalid
             ELSE Address(6, Vals(parts))

\* ipaddress.ip_address(s): an IPv4 address, else an IPv6 address, else
\* ValueError (ok = FALSE).
ip_address(s) ==
    IF ParseIPv4(s).ok THEN ParseIPv4(s) ELSE ParseIPv6(s)

(***************************************************************************)
(* The command table and the router.                                       *)
(***************************************************************************)
\* match.group(2): None, or the captured string.
NoneArg == [none |-> TRUE, s |-> <<>>]
Some(s) == [none |-> FALSE, s |-> s]

c_start == <<"/", "s", "t", "a", "r", "t">>
c_help == <<"/", "h", "e", "l", "p">>
c_ping == <<"/", "p", "i", "n", "g">>
c_ip == <<"/", "i", "p">>
c_geo == <<"/", "g", "e", "o">>
SP == <<" ">>

\* A pattern is the sequence of its alternatives, tried left to right; an
\* alternative is a literal prefix, followed by the group (.+) when arg holds.
Literal(lit) == <<[lit |-> lit, arg |-> FALSE]>>
WithArg(cmd) == <<[lit |-> cmd \o SP, arg |-> TRUE], [lit |-> cmd, arg |-> FALSE]>>
\* (/ip|/ip (.+)): the alternatives the other way round.
WithArgSwapped(cmd) == <<[lit |-> cmd, arg |-> FALSE], [lit |-> cmd \o SP, arg |-> TRUE]>>

\* The table with the alternatives of the /ip and /geo patterns swapped.
CommandsSwapped ==
    << [pattern |-> Literal(c_start), handler |-> "greeting"],
       [pattern |-> Literal(c_help), handler |-> "help"],
       [pattern |-> Literal(c_ping), handler |-> "ping"],
       [pattern |-> WithArgSwapped(c_ip), handler |-> "ip_base"],
       [pattern |-> WithArgSwapped(c_geo), handler |-> "ip_geo"] >>

\* self._commands as __init__ builds it.
Commands ==
    << [pattern |-> Literal(c_start), handler |-> "greeting"],
       [pattern |-> Literal(c_help), handler |-> "help"],
       [pattern |-> Literal(c_ping), handler |-> "ping"],
       [pattern |-> WithArg(c_ip), handler |-> "ip_base"],
       [pattern |-> WithArg(c_geo), handler |-> "ip_geo"] >>

\* Whether one alternative matches at the start of the text.
AltMatches(alt, t) ==
    /\ StartsWith(t, alt.lit)
    /\ alt.arg => TakeLine(SubSeq(t, Len(alt.lit) + 1, Len(t))) # <<>>

\* The match of a pattern at the start of the text: the first alternative that
\* matches decides group 2.
Match(pattern, t) ==
    LET hits == {i \in 1..Len(pattern) : AltMatches(pattern[i], t)}
        first == CHOOSE i \in hits : \A j \in hits : i <= j
        alt == pattern[first]
    IN  IF hits = {} THEN [matched |-> FALSE, group2 |-> NoneArg]
        ELSE [matched |-> TRUE,
              group2 |-> IF alt.arg
                         THEN Some(TakeLine(SubSeq(t, Len(alt.lit) + 1, Len(t))))
                         ELSE NoneArg]

\* The router: the handler of the first entry of the table whose pattern
\* matches, with its match; no handler when none matches.
Dispatch(table, t) ==
    LET hits == {i \in 1..Len(table) : Match(table[i].pattern, t).matched}
        first == CHOOSE i \in hits : \A j \in hits : i <= j
    IN  IF hits = {} THEN [handler |-> "none", group2 |-> NoneArg]
        ELSE [handler |-> table[first].handler,
              group2 |-> Match(table[first].pattern, t).group2]

(***************************************************************************)
(* Outbound messages.                                                      *)
(***************************************************************************)
GREETING == <<"Hi! I'm ipinfo.io bot and I can give you IP geolocation info about any IP address you send to me.\n\nYou can control me by sending these commands:\n\n/ip {ip} - get infromation about the IP\n/geo {ip} - get location on a map for the IP">>
HELP == <<"This bot allows you to get a simple information about giving IP address. All data provided by http://ipinfo.io/ service.">>
USAGE == <<"Please provide a valid ipv4 or ipv6 address for this command. Use /help command for examples.">>
PONG == <<"test pong!">>
UNKNOWN_LOCATION == <<"Sorry, location is unknown for this address">>
Markdown == <<"Markdown">>

\* chat._send_to_chat('sendMessage', text=..., parse_mode='Markdown')
MarkdownMessage(t) ==
    [call |-> "_send_to_chat", method |-> "sendMessage",
     args |-> [text |-> t, parse_mode |-> Markdown]]
\* chat._send_to_chat('sendMessage', text=...)
PlainMessage(t) ==
    [call |-> "_send_to_chat", method |-> "sendMessage", args |-> [text |-> t]]
\* chat._send_to_chat('sendLocation', latitude=..., longitude=...)
LocationMessage(lat, lon) ==
    [call |-> "_send_to_chat", method |-> "sendLocation",
     args |-> [latitude |-> lat, longitude |-> lon]]
\* chat.send_text(t)
SendText(t) == [call |-> "send_text", method |-> "sendMessage", args |-> [text |-> t]]
\* chat.reply(t)
Reply(t) == [call |-> "reply", method |-> "sendMessage", args |-> [text |-> t]]

\* '"{}" is not valid ipv4 or ipv6 address'.format(ip)
InvalidText(ip) == <<"\"">> \o ip \o <<"\" is not valid ipv4 or ipv6 address">>

\* str(ip) of the captured group, None included.
Str(a) == IF a.none THEN <<"None">> ELSE a.s

(***************************************************************************)
(* ip_base and ip_geo on the record the lookup returned.  A record is a    *)
(* function from its keys to strings.                                      *)
(***************************************************************************)
REQUIRED_KEYS == {"org", "country", "loc", "city", "hostname"}

\* BASE_TEMPLATE: literal pieces and replacement fields, in order.
Lit(t) == [field |-> FALSE, v |-> t]
Field(k) == [field |-> TRUE, v |-> k]
BASE_TEMPLATE ==
    << Lit("\n*"), Field("ip"), Lit("*\n\n*Hostname*: "), Field("hostname"),
       Lit("\n*Network*: "), Field("org"), Lit("\n*Country*: "), Field("country"),
       Lit("\n*City*: "), Field("city"), Lit("\n*Latitude/Longitude*: "),
       Field("loc"), Lit("\n") >>

TemplateFields(tpl) == {tpl[i].v : i \in {j \in 1..Len(tpl) : tpl[j].field}}

\* template.format(**data), for data that has every field of the template.
RECURSIVE Format(_, _)
Format(tpl, data) ==
    IF tpl = <<>> THEN <<>>
    ELSE (IF tpl[1].field THEN data[tpl[1].v] ELSE <<tpl[1].v>>)
         \o Format(Tail(tpl), data)

\* for v in REQUIRED_KEYS: if v not in data.keys(): data[v] = ''
FillRequired(data) ==
    [k \in DOMAIN data \cup REQUIRED_KEYS |->
        IF k \in DOMAIN data THEN data[k] ELSE <<>>]

NoMessage == [call |-> "", method |-> "", args |-> <<>>]
Raise(e) == [raised |-> e, msg |-> NoMessage]
Send(msg) == [raised |-> "", msg |-> msg]

\* ip_base after the lookup: the message it sends, or the exception format raises.
IpBaseOut(data) ==
    LET filled == FillRequired(data)
    IN  IF TemplateFields(BASE_TEMPLATE) \subseteq DOMAIN filled
        THEN Send(MarkdownMessage(Format(BASE_TEMPLATE, filled)))
        ELSE Raise("KeyError")

\* ip_geo after the lookup: the message it sends, or the exception indexing raises.
IpGeoOut(data) ==
    IF "loc" \in DOMAIN data
    THEN LET parts == Split(data["loc"], ",")
         IN  IF Len(parts) >= 2
             THEN Send(LocationMessage(parts[1], parts[2]))
             ELSE Raise("IndexError")
    ELSE Send(PlainMessage(UNKNOWN_LOCATION))

(***************************************************************************)
(* track_message.  A JSON value is a mapping or an atom.                   *)
(***************************************************************************)
JMap(f) == [t |-> "map", v |-> f]
JInt(n) == [t |-> "int", v |-> [int |-> n]]
JNone == [t |-> "none", v |-> [k \in {} |-> 0]]
JTrue == [t |-> "bool", v |-> [bool |-> TRUE]]
EmptyMap == [k \in {} |-> JNone]
One(k, x) == [y \in {k} |-> x]

\* x.get(k, d): the value under k, d when k is absent; AttributeError when x is
\* no mapping.
Get(x, k, d) ==
    IF x.t # "map" THEN [raised |-> TRUE, val |-> JNone]
    ELSE [raised |-> FALSE, val |-> IF k \in DOMAIN x.v THEN x.v[k] ELSE d]

\* The truth value of a JSON value.
Truthy(x) ==
    CASE x.t = "map" -> DOMAIN x.v # {}
      [] x.t = "int" -> x.v.int # 0
      [] x.t = "bool" -> x.v.bool
      [] OTHER -> FALSE

\* track_message(message, name) with or without a botan token: whether it
\* raises, and the self.track calls it makes.
TrackOut(message, name, token) ==
    LET r == Get(message, "result", JMap(EmptyMap))
        c == Get(r.val, "chat", JMap(EmptyMap))
        u == Get(c.val, "id", JNone)
    IN  IF r.raised \/ c.raised \/ u.raised
        THEN [raised |-> "AttributeError", track |-> <<>>]
        ELSE [raised |-> "",
              track |-> IF token /\ Truthy(u.val)
                        THEN <<[uid |-> u.val, name |-> name]>>
                        ELSE <<>>]

\* Whether the handler ends with a track_message call.
TrackedAll(h) == TRUE
Tracked(h) == h \in {"help", "ip_base", "ip_geo"}

\* The label a handler tracks its usage under.
TrackName(h) ==
    CASE h = "help" -> "Help"
      [] h = "ip_base" -> "Ip"
      [] h = "ip_geo" -> "Ip_Geo"
      [] OTHER -> ""

(***************************************************************************)
(* The inputs: message texts, lookup outcomes and send outcomes.           *)
(***************************************************************************)
a_8888 == <<"8", ".", "8", ".", "8", ".", "8">>
a_256 == <<"2", "5", "6", ".", "1", ".", "1", ".", "1">>
a_v6 == <<":", ":", "1">>
a_word == <<"n", "o", "t", "-", "a", "n", "-", "i", "p">>

Texts ==
    { c_start, c_help, c_ping, c_ip, c_geo,
      <<"h", "i">>,
      c_ip \o SP,
      c_ip \o SP \o a_8888,
      c_ip \o SP \o a_256,
      c_ip \o SP \o a_v6,
      c_ip \o SP \o a_word,
      c_geo \o SP \o a_8888,
      c_geo \o SP \o a_8888 \o <<"\n", "x">>,
      c_geo \o SP \o a_word,
      c_help \o SP \o c_ip \o SP \o a_8888 }

ConcTexts ==
    { c_ping, c_help, c_ip \o SP \o a_8888, c_ip \o SP \o a_256,
      c_geo \o SP \o a_8888 }

RecordKeys == {"ip"} \cup REQUIRED_KEYS
LocValues ==
    { <<"3", "7", ".", "4", ",", "-", "1", "2", "2", ".", "1">>,
      <<"3", "7", ".", "4">>,
      <<"1", ",", "2", ",", "3">>,
      <<>> }
FieldValue(k, loc) ==
    CASE k = "ip" -> a_8888
      [] k = "loc" -> loc
      [] OTHER -> <<k>>
Records ==
    {[k \in ks |-> FieldValue(k, loc)] : ks \in SUBSET RecordKeys, loc \in LocValues}
FullRecord == [k \in RecordKeys |-> FieldValue(k, <<"1", ",", "2">>)]

NoRecord == [k \in {} |-> <<>>]
NoOutcome == [kind |-> "none", data |-> NoRecord]
\* The lookup returned a JSON object.
Json(r) == [kind |-> "json", data |-> r]
\* response.json() raised ValueError: the body is no JSON.
DecodeError == [kind |-> "ValueError", data |-> NoRecord]
\* client.get raised: the request failed.
LookupError == [kind |-> "ClientError", data |-> NoRecord]

LookupOutcomes == {Json(r) : r \in Records} \cup {DecodeError, LookupError}
ConcLookupOutcomes == {Json(FullRecord), Json(NoRecord), DecodeError}

Chat(x) == JMap(One("result", JMap(One("chat", x))))
Responses ==
    { JNone,
      JMap(EmptyMap),
      JMap(One("result", JTrue)),
      JMap(One("result", JMap(EmptyMap))),
      Chat(JInt(7)),
      Chat(JMap(EmptyMap)),
      Chat(JMap(One("id", JNone))),
      Chat(JMap(One("id", JInt(0)))),
      Chat(JMap(One("id", JInt(42)))) }

NoResponse == [kind |-> "none", value |-> JNone]
Returned(x) == [kind |-> "response", value |-> x]
SendError == [kind |-> "ClientError", value |-> JNone]

SendOutcomes == {Returned(x) : x \in Responses} \cup {SendError}
ConcSendOutcomes == {Returned(Chat(JMap(One("id", JInt(42))))), SendError}

(***************************************************************************)
(* The state.                                                              *)
(***************************************************************************)
VARIABLES
    commands,         \* self._commands
    botan_token,      \* whether self.botan_token is set
    runState,         \* run(): "looping" in its while loop, "closed" after loop.close()
    signals,          \* the stop signals delivered so far
    logged,           \* the exceptions of callbacks, reported by the event loop
    cancelRequested,  \* the tasks task.cancel() was called on; 0 is self.loop()
    pc,               \* where the handling of each message is
    text,             \* the text of each message
    invoked,          \* the handlers the router invoked for each message
    arg,              \* match.group(2) of each message
    lookups,          \* the geolocation requests made for each message
    data,             \* what the lookup of each message returned
    sent,             \* the messages sent to the chat of each message
    response,         \* what the last send of each message returned
    trackCalls,       \* the track_message calls made for each message
    analytics,        \* the self.track calls made for each message
    raised            \* the exception that left the handler of each message

vars == << commands, botan_token, runState, signals, logged, cancelRequested,
           pc, text, invoked, arg, lookups, data, sent, response, trackCalls,
           analytics, raised >>

life == <<runState, signals, logged, cancelRequested>>

Init ==
    /\ commands = Commands
    /\ botan_token \in BOOLEAN
    /\ runState = "looping"
    /\ signals = 0
    /\ logged = <<>>
    /\ cancelRequested = {}
    /\ pc = [m \in Msgs |-> "new"]
    /\ text = [m \in Msgs |-> <<>>]
    /\ invoked = [m \in Msgs |-> <<>>]
    /\ arg = [m \in Msgs |-> NoneArg]
    /\ lookups = [m \in Msgs |-> <<>>]
    /\ data = [m \in Msgs |-> NoOutcome]
    /\ sent = [m \in Msgs |-> <<>>]
    /\ response = [m \in Msgs |-> NoResponse]
    /\ trackCalls = [m \in Msgs |-> <<>>]
    /\ analytics = [m \in Msgs |-> <<>>]
    /\ raised = [m \in Msgs |-> ""]

\* The handler invoked for message m.
HandlerOf(m) == IF invoked[m] = <<>> THEN "none" ELSE invoked[m][Len(invoked[m])]

\* The chat of another message: the one with the highest number.
SharedChat(m) == CHOOSE n \in Msgs : \A k \in Msgs : k <= n
\* The chat a handler invocation sends to: the chat parameter of its own call.
ChatOf(m) == m

\* await chat.<send>(msg), up to the suspension.
Emit(m, msg) == sent' = [sent EXCEPT ![ChatOf(m)] = Append(@, msg)]

\* if ip is None or ip == ''
IsMissingNever(a) == FALSE
IsMissing(a) == a.none \/ a.s = <<>>

\* except ValueError: the exceptions the wrapper of check_ip catches.
Caught(e) == e = "ValueError"

\* The handler of m raises e inside the try block of the wrapper: the wrapper
\* replies that the argument is invalid when it catches e, else e leaves it.
RaiseInTry(m, e) ==
    IF Caught(e)
    THEN /\ Emit(m, Reply(InvalidText(Str(arg[m]))))
         /\ pc' = [pc EXCEPT ![m] = "await_guard_send"]
         /\ UNCHANGED raised
    ELSE /\ pc' = [pc EXCEPT ![m] = "failed"]
         /\ raised' = [raised EXCEPT ![m] = e]
         /\ UNCHANGED sent

\* The task of m finds itself cancelled at a suspension point.
Cancelled(m) ==
    /\ pc' = [pc EXCEPT ![m] = "cancelled"]
    /\ UNCHANGED << commands, botan_token, life, text, invoked, arg, lookups,
                    data, sent, response, trackCalls, analytics, raised >>

(***************************************************************************)
(* The actions.                                                            *)
(***************************************************************************)
\* self.loop() receives a message and the router dispatches it; when the
\* task of self.loop() was cancelled, run() leaves its loop and closes.
Receive(m, texts) ==
    /\ runState = "looping"
    /\ pc[m] = "new"
    /\ IF 0 \in cancelRequested
       THEN /\ runState' = "closed"
            /\ UNCHANGED << commands, botan_token, signals, logged,
                            cancelRequested, pc, text, invoked, arg, lookups,
                            data, sent, response, trackCalls, analytics, raised >>
       ELSE \E t \in texts :
            LET d == Dispatch(commands, t)
            IN  /\ text' = [text EXCEPT ![m] = t]
                /\ arg' = [arg EXCEPT ![m] = d.group2]
                /\ invoked' = [invoked EXCEPT ![m] =
                       IF d.handler = "none" THEN @ ELSE Append(@, d.handler)]
                /\ pc' = [pc EXCEPT ![m] =
                       IF d.handler = "none" THEN "ignored" ELSE "ready"]
                /\ UNCHANGED << commands, botan_token, life, lookups, data,
                                sent, response, trackCalls, analytics, raised >>

\* The handler of m runs to its first await: greeting, help and ping send
\* their text; the wrapper of check_ip sends the usage text or the
\* invalid-address reply, or calls ip_base / ip_geo, which request the lookup.
Begin(m) ==
    /\ runState = "looping"
    /\ pc[m] = "ready"
    /\ IF m \in cancelRequested THEN Cancelled(m)
       ELSE LET h == HandlerOf(m) IN
            /\ UNCHANGED << commands, botan_token, life, text, invoked, arg,
                            data, response, trackCalls, analytics, raised >>
            /\ IF h \in {"greeting", "help", "ping"}
               THEN /\ Emit(m, CASE h = "greeting" -> MarkdownMessage(HELP)
                                 [] h = "help" -> MarkdownMessage(GREETING)
                                 [] OTHER -> SendText(PONG))
                    /\ pc' = [pc EXCEPT ![m] = "await_send"]
                    /\ UNCHANGED lookups
               ELSE IF IsMissing(arg[m])
               THEN /\ Emit(m, MarkdownMessage(USAGE))
                    /\ pc' = [pc EXCEPT ![m] = "await_guard_send"]
                    /\ UNCHANGED lookups
               ELSE IF ~ip_address(Str(arg[m])).ok
               THEN /\ Emit(m, Reply(InvalidText(Str(arg[m]))))
                    /\ pc' = [pc EXCEPT ![m] = "await_guard_send"]
                    /\ UNCHANGED lookups
               ELSE /\ lookups' = [lookups EXCEPT ![m] = Append(@,
                          [address |-> ip_address(Str(arg[m])),
                           path |-> IF h = "ip_base" THEN "json" ELSE "geo"])]
                    /\ pc' = [pc EXCEPT ![m] = "await_lookup"]
                    /\ UNCHANGED sent

\* ipinfo_query returns or raises; ip_base / ip_geo build their message and
\* send it.
LookupReturns(m, outcomes) ==
    /\ runState = "looping"
    /\ pc[m] = "await_lookup"
    /\ IF m \in cancelRequested THEN Cancelled(m)
       ELSE \E o \in outcomes :
            /\ data' = [data EXCEPT ![m] = o]
            /\ UNCHANGED << commands, botan_token, life, text, invoked, arg,
                            lookups, response, trackCalls, analytics >>
            /\ IF o.kind # "json" THEN RaiseInTry(m, o.kind)
               ELSE LET out == IF HandlerOf(m) = "ip_base"
                               THEN IpBaseOut(o.data) ELSE IpGeoOut(o.data)
                    IN  IF out.raised # "" THEN RaiseInTry(m, out.raised)
                        ELSE /\ Emit(m, out.msg)
                             /\ pc' = [pc EXCEPT ![m] = "await_send"]
                             /\ UNCHANGED raised

\* The send of a handler returns or raises; help, ip_base and ip_geo then
\* call track_message, which has no suspension point.
SendReturns(m, outcomes) ==
    /\ runState = "looping"
    /\ pc[m] = "await_send"
    /\ IF m \in cancelRequested THEN Cancelled(m)
       ELSE \E o \in outcomes :
            LET h == HandlerOf(m)
                t == TrackOut(o.value, TrackName(h), botan_token)
            IN  /\ response' = [response EXCEPT ![m] = o]
                /\ UNCHANGED << commands, botan_token, life, text, invoked,
                                arg, lookups, data >>
                /\ IF o.kind # "response"
                   THEN /\ IF h \in {"ip_base", "ip_geo"}
                           THEN RaiseInTry(m, o.kind)
                           ELSE /\ pc' = [pc EXCEPT ![m] = "failed"]
                                /\ raised' = [raised EXCEPT ![m] = o.kind]
                                /\ UNCHANGED sent
                        /\ UNCHANGED <<trackCalls, analytics>>
                   ELSE IF ~Tracked(h)
                   THEN /\ pc' = [pc EXCEPT ![m] = "done"]
                        /\ UNCHANGED <<sent, trackCalls, analytics, raised>>
                   ELSE /\ trackCalls' = [trackCalls EXCEPT ![m] =
                              Append(@, [name |-> TrackName(h), message |-> o.value])]
                        /\ analytics' = [analytics EXCEPT ![m] = @ \o t.track]
                        /\ IF t.raised = ""
                           THEN /\ pc' = [pc EXCEPT ![m] = "done"]
                                /\ UNCHANGED <<sent, raised>>
                           ELSE IF h \in {"ip_base", "ip_geo"}
                           THEN RaiseInTry(m, t.raised)
                           ELSE /\ pc' = [pc EXCEPT ![m] = "failed"]
                                /\ raised' = [raised EXCEPT ![m] = t.raised]
                                /\ UNCHANGED sent

\* The send of the wrapper of check_ip (the usage text or the invalid-address
\* reply) returns or raises, and the wrapper returns.
GuardSendReturns(m, outcomes) ==
    /\ runState = "looping"
    /\ pc[m] = "await_guard_send"
    /\ IF m \in cancelRequested THEN Cancelled(m)
       ELSE \E o \in outcomes :
            /\ response' = [response EXCEPT ![m] = o]
            /\ pc' = [pc EXCEPT ![m] = IF o.kind = "response" THEN "done" ELSE "failed"]
            /\ raised' = [raised EXCEPT ![m] = IF o.kind = "response" THEN @ ELSE o.kind]
            /\ UNCHANGED << commands, botan_token, life, text, invoked, arg,
                            lookups, data, sent, trackCalls, analytics >>

\* The positional parameters of shutdown, and the positional arguments that
\* functools.partial(self.shutdown, loop) calls it with (self and loop).
ShutdownParams == 0
ShutdownCallArgs == 2

\* The tasks asyncio.Task.all_tasks() holds: self.loop() and the handlers
\* that have not ended.
AllTasks == {0} \cup {m \in Msgs : pc[m] \in {"ready", "await_lookup", "await_send",
                                             "await_guard_send"}}

\* SIGTERM or SIGHUP: the event loop calls the registered callback, and
\* reports the exception of a callback that raises.
Signal ==
    /\ runState = "looping"
    /\ signals < MaxSignals
    /\ signals' = signals + 1
    /\ IF ShutdownCallArgs = ShutdownParams
       THEN /\ cancelRequested' = cancelRequested \cup AllTasks
            /\ UNCHANGED logged
       ELSE /\ logged' = Append(logged, "TypeError")
            /\ UNCHANGED cancelRequested
    /\ UNCHANGED << commands, botan_token, runState, pc, text, invoked, arg,
                    lookups, data, sent, response, trackCalls, analytics, raised >>

\* KeyboardInterrupt: run() leaves its loop and closes the event loop.
Interrupt ==
    /\ runState = "looping"
    /\ runState' = "closed"
    /\ UNCHANGED << commands, botan_token, signals, logged, cancelRequested,
                    pc, text, invoked, arg, lookups, data, sent, response,
                    trackCalls, analytics, raised >>

\* The message Spec follows.
Solo == {m \in Msgs : \A n \in Msgs : m <= n}

\* One message, over all the inputs.
Next ==
    \/ \E m \in Solo : Receive(m, Texts)
    \/ \E m \in Solo : Begin(m)
    \/ \E m \in Solo : LookupReturns(m, LookupOutcomes)
    \/ \E m \in Solo : SendReturns(m, SendOutcomes)
    \/ \E m \in Solo : GuardSendReturns(m, SendOutcomes)
    \/ Signal
    \/ Interrupt

Spec == Init /\ [][Next]_vars

\* All the messages, handled concurrently.
NextConc ==
    \/ \E m \in Msgs : Receive(m, ConcTexts)
    \/ \E m \in Msgs : Begin(m)
    \/ \E m \in Msgs : LookupReturns(m, ConcLookupOutcomes)
    \/ \E m \in Msgs : SendReturns(m, ConcSendOutcomes)
    \/ \E m \in Msgs : GuardSendReturns(m, ConcSendOutcomes)
    \/ Signal
    \/ Interrupt

SpecConc == Init /\ [][NextConc]_vars

(***************************************************************************)
(* The properties.                                                         *)
(***************************************************************************)
Guarded(m) == HandlerOf(m) \in {"ip_base", "ip_geo"}
\* The wrapper of check_ip has run for m up to its first await or further.
Begun(m) == pc[m] \notin {"new", "ignored", "ready"}
ArgMissing(m) == arg[m].none \/ arg[m].s = <<>>
\* Arguments that are no IPv4 and no IPv6 literal.
KnownInvalid == {a_256, a_word}
InvalidReplyTo(raw) ==
    [call |-> "reply", method |-> "sendMessage",
     args |-> [text |-> <<"\"">> \o raw \o <<"\" is not valid ipv4 or ipv6 address">>]]

\* C1: for an /ip or /geo message whose captured argument is None or empty,
\* the guard sends exactly one message, the usage text, and the wrapped
\* handler does not run: no lookup is requested and nothing is tracked.
C1_MissingArgument ==
    \A m \in Msgs :
        (Guarded(m) /\ Begun(m) /\ ArgMissing(m)) =>
            /\ sent[m] = <<MarkdownMessage(USAGE)>>
            /\ lookups[m] = <<>>
            /\ data[m] = NoOutcome
            /\ trackCalls[m] = <<>>
            /\ analytics[m] = <<>>

C1_Witness ==
    \E m \in Msgs :
        /\ text[m] = c_geo
        /\ HandlerOf(m) = "ip_geo"
        /\ arg[m].none
        /\ pc[m] = "done"
        /\ sent[m] = <<MarkdownMessage(USAGE)>>

\* C2: for an /ip or /geo message whose argument is not empty and is no
\* valid IPv4 or IPv6 literal, the guard sends exactly one reply, quoting the
\* argument verbatim, and no lookup is requested and nothing is tracked.
C2_InvalidAddress ==
    \A m \in Msgs :
        (/\ Guarded(m) /\ Begun(m) /\ ~ArgMissing(m)
         /\ (arg[m].s \in KnownInvalid \/ ~ip_address(arg[m].s).ok)) =>
            /\ sent[m] = <<InvalidReplyTo(arg[m].s)>>
            /\ lookups[m] = <<>>
            /\ data[m] = NoOutcome
            /\ trackCalls[m] = <<>>
            /\ analytics[m] = <<>>

C2_Witness ==
    \E m \in Msgs :
        /\ text[m] = c_ip \o SP \o a_256
        /\ pc[m] = "done"
        /\ sent[m] = <<InvalidReplyTo(a_256)>>

\* The handler of the first command, in the order /start, /help, /ping, /ip,
\* /geo, that the text begins with.
FirstCommand(t) ==
    CASE StartsWith(t, c_start) -> "greeting"
      [] StartsWith(t, c_help) -> "help"
      [] StartsWith(t, c_ping) -> "ping"
      [] StartsWith(t, c_ip) -> "ip_base"
      [] StartsWith(t, c_geo) -> "ip_geo"
      [] OTHER -> "none"

\* C3: for every message received, the router invokes the handler of the
\* first command of the table, in the order /start, /help, /ping, /ip, /geo,
\* that matches, and no handler when none matches; never more than one.
\* "/ip 8.8.8.8" invokes ip_base with the argument "8.8.8.8", and "/geo"
\* invokes ip_geo with no argument.
C3_FirstMatchOnly ==
    \A m \in Msgs :
        pc[m] # "new" =>
            /\ Len(invoked[m]) <= 1
            /\ HandlerOf(m) = FirstCommand(text[m])
            /\ (pc[m] = "ignored") = (invoked[m] = <<>>)
            /\ text[m] = c_ip \o SP \o a_8888 =>
                   (invoked[m] = <<"ip_base">> /\ arg[m] = Some(a_8888))
            /\ text[m] = c_geo => (invoked[m] = <<"ip_geo">> /\ arg[m].none)

C3_Witness ==
    \E m \in Msgs :
        /\ text[m] = c_ip \o SP \o a_8888
        /\ invoked[m] = <<"ip_base">>
        /\ arg[m] = Some(a_8888)
        /\ pc[m] = "await_lookup"

\* C4: for every record the lookup returns for a valid /ip address, whatever
\* fields it has, ip_base sends one text message, the base template with the
\* empty string for each absent field, and formatting does not raise.
C4_FormatNeverRaises ==
    \A m \in Msgs :
        (HandlerOf(m) = "ip_base" /\ data[m].kind = "json") =>
            /\ raised[m] # "KeyError"
            /\ Len(sent[m]) = 1
            /\ sent[m][1].method = "sendMessage"

\* The part of s before and after its first occurrence of c.
BeforeFirst(s, c) == Split(s, c)[1]
AfterFirst(s, c) == SubSeq(s, Len(BeforeFirst(s, c)) + 2, Len(s))

\* C5: for every record the lookup returns for a valid /geo address, ip_geo
\* sends exactly one message: with loc present, whatever string it is, a
\* location whose latitude is loc before its first comma and whose longitude
\* is loc after its first comma; with loc absent, the location-unknown text.
C5_ExactlyOneGeoMessage ==
    \A m \in Msgs :
        (HandlerOf(m) = "ip_geo" /\ data[m].kind = "json") =>
            /\ Len(sent[m]) = 1
            /\ IF "loc" \in DOMAIN data[m].data
               THEN sent[m][1] = LocationMessage(BeforeFirst(data[m].data["loc"], ","),
                                                 AfterFirst(data[m].data["loc"], ","))
               ELSE sent[m][1] = PlainMessage(UNKNOWN_LOCATION)

\* C6: track_message is called at most once for a message, only after the
\* send of its reply has returned, and only by help (label Help), by ip_base
\* after the formatted reply (label Ip) and by ip_geo after its reply (label
\* Ip_Geo); never for /ping, for /start, or for an /ip or /geo message
\* rejected as missing or invalid.
C6_TrackingPaths ==
    \A m \in Msgs :
        /\ Len(trackCalls[m]) <= 1
        /\ Len(analytics[m]) <= Len(trackCalls[m])
        /\ trackCalls[m] # <<>> =>
              /\ response[m].kind = "response"
              /\ trackCalls[m][1].message = response[m].value
              /\ Len(sent[m]) = 1
              /\ \/ HandlerOf(m) = "help" /\ trackCalls[m][1].name = "Help"
                 \/ /\ HandlerOf(m) = "ip_base" /\ trackCalls[m][1].name = "Ip"
                    /\ data[m].kind = "json" /\ sent[m][1].call = "_send_to_chat"
                 \/ /\ HandlerOf(m) = "ip_geo" /\ trackCalls[m][1].name = "Ip_Geo"
                    /\ data[m].kind = "json" /\ sent[m][1].call = "_send_to_chat"
        /\ HandlerOf(m) \in {"ping", "greeting", "none"} => trackCalls[m] = <<>>
        /\ (Guarded(m) /\ (ArgMissing(m) \/ arg[m].s \in KnownInvalid)) =>
              trackCalls[m] = <<>>

C6_Witness ==
    \E m \in Msgs :
        /\ HandlerOf(m) = "ip_base"
        /\ pc[m] = "done"
        /\ Len(sent[m]) = 1
        /\ trackCalls[m] # <<>>
        /\ analytics[m] = <<[uid |-> JInt(42), name |-> "Ip"]>>

\* C7: track_message never raises: whatever the send returned, a handler
\* that calls it completes normally, and self.track is called only with a
\* token configured and an identifier obtained.
C7_TrackNeverRaises ==
    \A m \in Msgs :
        trackCalls[m] # <<>> =>
            /\ raised[m] = ""
            /\ pc[m] = "done"
            /\ analytics[m] # <<>> => botan_token

\* C8: under any interleaving of the handlers, each message is handled by
\* one handler invocation, what is sent to its chat depends on its own text
\* and its own lookup result only, and the command table stays as built.
C8_Independent ==
    /\ commands = Commands
    /\ \A m \in Msgs : Len(invoked[m]) <= 1 /\ Len(lookups[m]) <= 1
    /\ \A m, n \in Msgs :
          (text[m] = text[n] /\ data[m] = data[n] /\ pc[m] = pc[n]) =>
              (sent[m] = sent[n] /\ lookups[m] = lookups[n])

C8_Witness ==
    \E m, n \in Msgs :
        /\ text[m] # text[n]
        /\ pc[m] = "await_lookup"
        /\ pc[n] = "await_send"
        /\ sent[m] = <<>>
        /\ Len(sent[n]) = 1

\* C9: once a stop signal has been delivered while run() is looping, every
\* task in flight has been cancelled, the task of self.loop() included, so
\* that run() leaves its loop.
C9_ShutdownCancels ==
    signals > 0 => (runState = "closed" \/ AllTasks \subseteq cancelRequested)

\* C10: the invalid-address reply is sent only for an argument that fails to
\* parse; a failure inside the wrapped handler never causes it, and no
\* message gets a normal reply and the invalid-address reply.
C10_InvalidReplyOnlyForInvalid ==
    \A m \in Msgs :
        /\ (\E i \in 1..Len(sent[m]) : sent[m][i].call = "reply") =>
               ~ip_address(Str(arg[m])).ok
        /\ Len(sent[m]) <= 1

====
